---- MODULE Spec2Model ----
(***************************************************************************)
(* Decoder of the pcapng Interface Description Block                       *)
(* (src/pcapng/blocks/interface_description.rs) and of its option list.    *)
(*                                                                         *)
(* A byte is a number in 0..255, a slice is a sequence of bytes.           *)
(* A u8/u32/u64 VALUE is written as its base-256 numeral, most significant *)
(* digit first, with as many digits as the type has bytes: TLC's integers  *)
(* are 32 bits wide, a u64 is not.  Two numerals of one width are equal    *)
(* exactly when the integers are.  u16 values are plain numbers.           *)
(***************************************************************************)
EXTENDS Integers, Sequences, FiniteSets, TLC

VARIABLES
  order,    \* the byte order B of the section: "LE" or "BE"
  pad,      \* the byte the writer of the input put in padding positions
  buf,      \* the input slice handed to from_slice
  blocks,   \* what the input was assembled from: <<[linktype, snaplen, recs]>>
  cut,      \* TRUE once the input was cut short of what was assembled
  pc,       \* "build" | "sealed" | "decoded" | "done"
  res,      \* result of InterfaceDescriptionBlock::from_slice(buf)
  res2      \* result of from_slice on the remaining slice of res

vars == <<order, pad, buf, blocks, cut, pc, res, res2>>

\* ------------------------------------------------------------------ bounds

\* Most TLV records written into one input (terminator records included).
MaxRecords == 3

\* ------------------------------------------------------- results and errors

NoErr == [kind |-> "none", n |-> 0, msg |-> ""]

IncompleteBuffer(k) == [kind |-> "IncompleteBuffer", n |-> k, msg |-> ""]

InvalidField(m) == [kind |-> "InvalidField", n |-> 0, msg |-> m]

\* std::io::Error of kind UnexpectedEof, as read_exact on a short slice gives
IoUnexpectedEof == [kind |-> "IoError", n |-> 0, msg |-> "UnexpectedEof"]

\* std::str::Utf8Error
Utf8Error == [kind |-> "Utf8Error", n |-> 0, msg |-> ""]

Ok(v, r) == [ok |-> TRUE, val |-> v, rest |-> r, err |-> NoErr]

Err(e) == [ok |-> FALSE, val |-> <<>>, rest |-> <<>>, err |-> e]

\* The `?` operator's conversion of a lower-level error into PcapError.
\* errors.rs is not part of the sources at hand; the design folds a failed
\* read and malformed UTF-8 into the "invalid field" shape.
PcapErrorFrom(e) ==
  CASE e.kind = "IoError" -> InvalidField("read failed")
    [] e.kind = "Utf8Error" -> InvalidField("invalid utf8")
    [] OTHER -> e

\* ------------------------------------------------------------ slice reads

Drop(s, k) == SubSeq(s, k + 1, Len(s))

Take(s, k) == SubSeq(s, 1, k)

Reverse(s) == [i \in 1..Len(s) |-> s[Len(s) + 1 - i]]

\* byteorder: the numeral of the first w bytes of s read in byte order B
Numeral(B, s, w) == IF B = "BE" THEN Take(s, w) ELSE Reverse(Take(s, w))

read_u8(s) ==
  IF Len(s) < 1 THEN Err(IoUnexpectedEof) ELSE Ok(Take(s, 1), Drop(s, 1))

read_u16(B, s) ==
  IF Len(s) < 2 THEN Err(IoUnexpectedEof)
  ELSE Ok(IF B = "BE" THEN s[1] * 256 + s[2] ELSE s[2] * 256 + s[1], Drop(s, 2))

\* Variant of read_u32: the byte order parameter is not honoured.
read_u32_fixed_order(B, s) ==
  IF Len(s) < 4 THEN Err(IoUnexpectedEof) ELSE Ok(Take(s, 4), Drop(s, 4))

read_u32(B, s) ==
  IF Len(s) < 4 THEN Err(IoUnexpectedEof) ELSE Ok(Numeral(B, s, 4), Drop(s, 4))

read_u64(B, s) ==
  IF Len(s) < 8 THEN Err(IoUnexpectedEof) ELSE Ok(Numeral(B, s, 8), Drop(s, 8))

\* ------------------------------------------------------ std::str::from_utf8

IsCont(b) == b >= 128 /\ b <= 191

\* Length of the well-formed UTF-8 sequence at the head of s, 0 if there is none.
Utf8SeqLen(s) ==
  LET n == Len(s)
      b == s[1]
  IN  IF b <= 127 THEN 1
      ELSE IF b >= 194 /\ b <= 223
        THEN IF n >= 2 /\ IsCont(s[2]) THEN 2 ELSE 0
      ELSE IF b >= 224 /\ b <= 239
        THEN IF n >= 3 /\ IsCont(s[2]) /\ IsCont(s[3])
                /\ (b = 224 => s[2] >= 160)
                /\ (b = 237 => s[2] <= 159)
             THEN 3 ELSE 0
      ELSE IF b >= 240 /\ b <= 244
        THEN IF n >= 4 /\ IsCont(s[2]) /\ IsCont(s[3]) /\ IsCont(s[4])
                /\ (b = 240 => s[2] >= 144)
                /\ (b = 244 => s[2] <= 143)
             THEN 4 ELSE 0
      ELSE 0

RECURSIVE ValidUtf8(_)
ValidUtf8(s) ==
  IF s = <<>> THEN TRUE
  ELSE LET k == Utf8SeqLen(s)
       IN  IF k = 0 THEN FALSE ELSE ValidUtf8(Drop(s, k))

from_utf8(s) == IF ValidUtf8(s) THEN Ok(s, <<>>) ELSE Err(Utf8Error)

\* ------------------------------------------- DataLink::from(u32) (registry)

\* The link-layer-type registry lives in another file of the crate; of it the
\* design fixes that 1 is Ethernet and that an unrecognised number N is kept
\* as Unknown(N).  Only numbers the inputs below use are looked up.
DataLinkFrom(n) ==
  IF n = 1 THEN [tag |-> "ETHERNET", n |-> 1] ELSE [tag |-> "Unknown", n |-> n]

\* -------------------------- InterfaceDescriptionOption: the closure's arms

OptVal(tag, kind, v) == [tag |-> tag, kind |-> kind, val |-> v]

\* Variant of opt_str: the Utf8Error is returned as it is.
opt_str_raw_error(tag, slice) ==
  LET r == from_utf8(slice)
  IN  IF r.ok THEN Ok(OptVal(tag, "str", r.val), <<>>) ELSE Err(r.err)

\* Tag(std::str::from_utf8(slice)?)
opt_str(tag, slice) ==
  LET r == from_utf8(slice)
  IN  IF r.ok THEN Ok(OptVal(tag, "str", r.val), <<>>)
      ELSE Err(PcapErrorFrom(r.err))

\* Tag(slice)
opt_bytes(tag, slice) == Ok(OptVal(tag, "bytes", slice), <<>>)

\* Variant of opt_u8: an empty payload reads as 0.
opt_u8_default_zero(tag, slice) ==
  IF slice = <<>> THEN Ok(OptVal(tag, "u8", <<0>>), <<>>)
  ELSE Ok(OptVal(tag, "u8", Take(slice, 1)), <<>>)

\* Tag(slice.read_u8()?)
opt_u8(tag, slice) ==
  LET r == read_u8(slice)
  IN  IF r.ok THEN Ok(OptVal(tag, "u8", r.val), <<>>)
      ELSE Err(PcapErrorFrom(r.err))

\* Tag(slice.read_u32::<B>()?)
opt_u32(tag, B, slice) ==
  LET r == read_u32(B, slice)
  IN  IF r.ok THEN Ok(OptVal(tag, "u32", r.val), <<>>)
      ELSE Err(PcapErrorFrom(r.err))

\* Tag(slice.read_u64::<B>()?)
opt_u64(tag, B, slice) ==
  LET r == read_u64(B, slice)
  IN  IF r.ok THEN Ok(OptVal(tag, "u64", r.val), <<>>)
      ELSE Err(PcapErrorFrom(r.err))

\* Variant of opt_invalid: an unrecognised option is kept instead of refused.
opt_invalid_skipped(type_) == Ok(OptVal("Unknown", "bytes", <<>>), <<>>)

\* _ => return Err(PcapError::InvalidField(..))
opt_invalid(type_) == Err(InvalidField("InterfaceDescriptionOption type invalid"))

\* let opt = match type_ { .. }
option_match(B, slice, type_) ==
  CASE type_ = 1 -> opt_str("Comment", slice)
    [] type_ = 2 -> opt_str("IfName", slice)
    [] type_ = 3 -> opt_str("IfDescription", slice)
    [] type_ = 4 -> opt_bytes("IfIpv4Addr", slice)
    [] type_ = 5 -> opt_bytes("IfIpv6Addr", slice)
    [] type_ = 6 -> opt_bytes("IfMacAddr", slice)
    [] type_ = 7 -> opt_u64("IfEulAddr", B, slice)
    [] type_ = 8 -> opt_u64("IfSpeed", B, slice)
    [] type_ = 9 -> opt_u8("IfTsResol", slice)
    [] type_ = 10 -> opt_u32("IfTzone", B, slice)
    [] type_ = 11 -> opt_bytes("IfFilter", slice)
    [] type_ = 12 -> opt_str("IfOs", slice)
    [] type_ = 13 -> opt_u8("IfFcsLen", slice)
    [] type_ = 14 -> opt_u64("IfTsOffset", B, slice)
    [] type_ = 15 -> opt_str("IfHardware", slice)
    [] OTHER -> opt_invalid(type_)

\* Variant of option_closure: code 13 takes the arm of code 9.
option_closure_fcslen_as_tsresol(B, slice, type_, len) ==
  option_match(B, slice, IF type_ = 13 THEN 9 ELSE type_)

\* Variant of option_closure: code 2 takes the arm of code 1.
option_closure_name_as_comment(B, slice, type_, len) ==
  option_match(B, slice, IF type_ = 2 THEN 1 ELSE type_)

\* Variant of option_closure: an integer option must be as long as its integer.
option_closure_len_checked(B, slice, type_, len) ==
  IF \/ type_ \in {7, 8, 14} /\ len # 8
     \/ type_ = 10 /\ len # 4
     \/ type_ \in {9, 13} /\ len # 1
    THEN Err(InvalidField("InterfaceDescriptionOption length invalid"))
    ELSE option_match(B, slice, type_)

\* The closure |mut slice, type_, len| handed to opts_from_slice.
option_closure(B, slice, type_, len) == option_match(B, slice, type_)

\* ----------------------------------------- opts_from_slice (blocks/mod.rs)

PadLen(length) == (4 - (length % 4)) % 4

\* The generic TLV scanner is not part of the sources at hand; this is the
\* design's algorithm (Option Decoder, steps 1 to 6), with the closure above
\* as its interpreter.  Where the slice ends inside a record's padding the
\* skip is taken as one more bounded read.
RECURSIVE opts_loop(_, _, _)
opts_loop(B, slice, options) ==
  IF slice = <<>> THEN Ok(options, slice)
  ELSE IF Len(slice) < 4 THEN Err(IncompleteBuffer(4 - Len(slice)))
  ELSE
    LET type_ == read_u16(B, slice).val
        length == read_u16(B, Drop(slice, 2)).val
        body == Drop(slice, 4)
    IN  IF type_ = 0 THEN Ok(options, body)
        ELSE IF Len(body) < length
          THEN Err(IncompleteBuffer(length - Len(body)))
        ELSE
          LET payload == Take(body, length)
              after == Drop(body, length)
              pad_len == PadLen(length)
          IN  IF Len(after) < pad_len
                THEN Err(IncompleteBuffer(pad_len - Len(after)))
              ELSE
                LET opt == option_closure(B, payload, type_, length)
                IN  IF ~opt.ok THEN Err(opt.err)
                    ELSE opts_loop(B, Drop(after, pad_len),
                                   Append(options, opt.val))

opts_from_slice(B, slice) == opts_loop(B, slice, <<>>)

\* InterfaceDescriptionOption::from_slice
InterfaceDescriptionOption_from_slice(B, slice) == opts_from_slice(B, slice)

\* ---------------------------------- InterfaceDescriptionBlock::from_slice

\* Variant of decode_block: a failure of the option list is reported as an
\* invalid field.
decode_block_options_invalid(B, slice) ==
  LET r1 == read_u16(B, slice)
      r2 == read_u32(B, r1.rest)
      r3 == InterfaceDescriptionOption_from_slice(B, r2.rest)
  IN  IF ~r3.ok THEN Err(InvalidField("InterfaceDescriptionBlock options"))
      ELSE Ok([linktype |-> DataLinkFrom(r1.val),
               snaplen |-> r2.val,
               options |-> r3.val], r3.rest)

\* Variant of decode_block: the slice returned is the one the options were
\* read from, not the one left after them.
decode_block_stale_slice(B, slice) ==
  LET r1 == read_u16(B, slice)
      r2 == read_u32(B, r1.rest)
      r3 == InterfaceDescriptionOption_from_slice(B, r2.rest)
  IN  IF ~r3.ok THEN Err(r3.err)
      ELSE Ok([linktype |-> DataLinkFrom(r1.val),
               snaplen |-> r2.val,
               options |-> r3.val], r2.rest)

\* The body of from_slice after its length check.
decode_block(B, slice) ==
  LET r1 == read_u16(B, slice)
  IN  IF ~r1.ok THEN Err(PcapErrorFrom(r1.err))
      ELSE
        LET linktype == DataLinkFrom(r1.val)
            r2 == read_u32(B, r1.rest)
        IN  IF ~r2.ok THEN Err(PcapErrorFrom(r2.err))
            ELSE
              LET r3 == InterfaceDescriptionOption_from_slice(B, r2.rest)
              IN  IF ~r3.ok THEN Err(r3.err)
                  ELSE Ok([linktype |-> linktype,
                           snaplen |-> r2.val,
                           options |-> r3.val], r3.rest)

\* Variant of from_slice: the length check counts 4 header bytes.
from_slice_header4(B, slice) ==
  IF Len(slice) < 4 THEN Err(IncompleteBuffer(4 - Len(slice)))
  ELSE decode_block(B, slice)

from_slice(B, slice) ==
  IF Len(slice) < 6 THEN Err(IncompleteBuffer(6 - Len(slice)))
  ELSE decode_block(B, slice)

\* ------------------------------------------------------------ the inputs

\* The writer's side of the wire format, used to assemble input slices.
write_u16(B, n) ==
  IF B = "BE" THEN <<n \div 256, n % 256>> ELSE <<n % 256, n \div 256>>

write_numeral(B, d) == IF B = "BE" THEN d ELSE Reverse(d)

HeaderBytes(B, linktype, snaplen) ==
  write_u16(B, linktype) \o write_numeral(B, snaplen)

RecordBytes(B, p, r) ==
  write_u16(B, r.code) \o write_u16(B, Len(r.payload)) \o r.payload
    \o [i \in 1..PadLen(Len(r.payload)) |-> p]

Rec(c, payload) == [code |-> c, payload |-> payload]

\* Link types: Ethernet and a number outside the registry (0x1234).
LinkTypes == {1, 4660}

\* Snaplens, as u32 numerals: 0 and 0x01020304.
Snaplens == {<<0, 0, 0, 0>>, <<1, 2, 3, 4>>}

PadBytes == {0, 85}

\* Payloads: empty, one byte, "hi", a two-byte UTF-8 character, a byte that
\* is no UTF-8, and 4, 8 and 9 distinct bytes.
Payloads ==
  { <<>>, <<6>>, <<104, 105>>, <<195, 169>>, <<255>>, <<1, 2, 3, 4>>,
    <<1, 2, 3, 4, 5, 6, 7, 8>>, <<1, 2, 3, 4, 5, 6, 7, 8, 9>> }

\* Every option code of the table, the terminator, and two codes outside it
\* (256 is code 1 read in the wrong byte order).
Codes == 0..15 \cup {99, 256}

AllRecords == {Rec(c, p) : c \in Codes, p \in Payloads}

\* The records that sequences of several records are made of.
SeqRecords ==
  { Rec(0, <<>>), Rec(0, <<6>>), Rec(2, <<104, 105>>), Rec(9, <<6>>),
    Rec(4, <<1, 2, 3, 4>>), Rec(99, <<6, 7>>) }

\* The options that may precede the record under test in a block of SpecOpt.
LeadRecords == {Rec(2, <<104, 105>>), Rec(9, <<6>>)}

NoResult == Err(NoErr)

Init ==
  /\ order \in {"LE", "BE"}
  /\ pad \in PadBytes
  /\ \E lt \in LinkTypes, sl \in Snaplens :
       /\ blocks = <<[linktype |-> lt, snaplen |-> sl, recs |-> <<>>]>>
       /\ buf = HeaderBytes(order, lt, sl)
  /\ cut = FALSE
  /\ pc = "build"
  /\ res = NoResult
  /\ res2 = NoResult

LastBlock == blocks[Len(blocks)]

\* One more TLV record is written at the end of the input.
AddRecord(r) ==
  /\ pc = "build"
  /\ buf' = buf \o RecordBytes(order, pad, r)
  /\ blocks' = [blocks EXCEPT ![Len(blocks)].recs = Append(@, r)]
  /\ UNCHANGED <<order, pad, cut, pc, res, res2>>

RECURSIVE TotalRecords(_)
TotalRecords(bs) ==
  IF bs = <<>> THEN 0 ELSE Len(bs[1].recs) + TotalRecords(Tail(bs))

AddOption ==
  \E r \in SeqRecords :
    /\ TotalRecords(blocks) < MaxRecords
    /\ AddRecord(r)

\* One record of any code and payload, alone or after one leading option.
AddAnyOption ==
  \E r \in AllRecords :
    /\ \/ LastBlock.recs = <<>>
       \/ Len(LastBlock.recs) = 1 /\ LastBlock.recs[1] \in LeadRecords
    /\ AddRecord(r)

\* A second block is written after a block that ends with a terminator.
StartBlock ==
  /\ pc = "build"
  /\ Len(blocks) = 1
  /\ blocks[1].recs # <<>>
  /\ blocks[1].recs[Len(blocks[1].recs)] = Rec(0, <<>>)
  /\ \E lt \in LinkTypes, sl \in Snaplens :
       /\ blocks' = Append(blocks, [linktype |-> lt, snaplen |-> sl, recs |-> <<>>])
       /\ buf' = buf \o HeaderBytes(order, lt, sl)
  /\ UNCHANGED <<order, pad, cut, pc, res, res2>>

\* The caller holds only the first n bytes of what was written.
Truncate ==
  /\ pc = "build"
  /\ Len(blocks) = 1
  /\ \E n \in 0..(Len(buf) - 1) : buf' = Take(buf, n)
  /\ cut' = TRUE
  /\ pc' = "sealed"
  /\ UNCHANGED <<order, pad, blocks, res, res2>>

\* InterfaceDescriptionBlock::from_slice::<B>(buf)
Decode ==
  /\ pc \in {"build", "sealed"}
  /\ res' = from_slice(order, buf)
  /\ pc' = "decoded"
  /\ UNCHANGED <<order, pad, buf, blocks, cut, res2>>

\* The caller decodes the next block from the remaining slice.
DecodeRest ==
  /\ pc = "decoded"
  /\ res.ok
  /\ res2' = from_slice(order, res.rest)
  /\ pc' = "done"
  /\ UNCHANGED <<order, pad, buf, blocks, cut, res>>

Next == AddOption \/ StartBlock \/ Truncate \/ Decode \/ DecodeRest

\* Inputs of up to MaxRecords records in one or two blocks.
Spec == Init /\ [][Next]_vars

NextOpt == AddAnyOption \/ Truncate \/ Decode

\* Blocks whose last record ranges over every option code and payload.
SpecOpt == Init /\ [][NextOpt]_vars

\* ------------------------------------------------- what the claims speak of

Decoded == pc \in {"decoded", "done"}

\* The records written into the first block.
Recs1 == blocks[1].recs

\* The variants of enum InterfaceDescriptionOption in declaration order;
\* the option table gives option code c the c-th of them.
VariantOf ==
  << "Comment", "IfName", "IfDescription", "IfIpv4Addr", "IfIpv6Addr",
     "IfMacAddr", "IfEulAddr", "IfSpeed", "IfTsResol", "IfTzone", "IfFilter",
     "IfOs", "IfFcsLen", "IfTsOffset", "IfHardware" >>

StrCodes == {1, 2, 3, 12, 15}

RawCodes == {4, 5, 6, 11}

IntCodes == {7, 8, 9, 10, 13, 14}

\* The option table's payload kind of option code c.
KindOf(c) ==
  CASE c \in StrCodes -> "str"
    [] c \in RawCodes -> "bytes"
    [] c \in {7, 8, 14} -> "u64"
    [] c = 10 -> "u32"
    [] c \in {9, 13} -> "u8"

\* Bytes of an integer kind.
WidthOf(k) == CASE k = "u64" -> 8 [] k = "u32" -> 4 [] k = "u8" -> 1 [] OTHER -> 0

\* A record of the table whose payload is one its kind can be read from.
WellFormed(r) ==
  /\ r.code \in 1..15
  /\ r.code \in StrCodes => ValidUtf8(r.payload)
  /\ r.code \in IntCodes => Len(r.payload) >= WidthOf(KindOf(r.code))

\* The value the option table assigns to a well-formed record.
ExpectedOption(B, r) ==
  LET k == KindOf(r.code)
      w == WidthOf(k)
  IN  [tag |-> VariantOf[r.code],
       kind |-> k,
       val |-> IF r.code \in IntCodes
                 THEN [i \in 1..w |->
                        IF B = "BE" THEN r.payload[i] ELSE r.payload[w + 1 - i]]
                 ELSE r.payload]

\* Bytes of a record on the wire: header, payload, padding to a multiple of 4.
RecSize(r) == 4 + ((Len(r.payload) + 3) \div 4) * 4

RECURSIVE RecsSize(_)
RecsSize(recs) ==
  IF recs = <<>> THEN 0 ELSE RecSize(recs[1]) + RecsSize(Tail(recs))

\* Offset in the input of the i-th record of the first block.
RecStart(i) == 6 + RecsSize(Take(Recs1, i - 1))

\* Every record before the i-th decodes to an option.
Reached(i) == \A j \in 1..(i - 1) : WellFormed(Recs1[j])

\* Index of the first record with type code 0 (one past the end if none).
FirstZero ==
  IF \E i \in 1..Len(Recs1) : Recs1[i].code = 0
    THEN CHOOSE i \in 1..Len(Recs1) :
           /\ Recs1[i].code = 0
           /\ \A j \in 1..(i - 1) : Recs1[j].code # 0
    ELSE Len(Recs1) + 1

\* ------------------------------------------------------------------ claims

\* C1: a slice of n < 6 bytes, in either byte order, fails with
\* IncompleteBuffer(6 - n), whatever its bytes are; no record is returned.
C1_ShortSlice ==
  /\ (Decoded /\ Len(buf) < 6) =>
       /\ ~res.ok
       /\ res.err.kind = "IncompleteBuffer"
       /\ res.err.n = 6 - Len(buf)
  /\ (pc = "done" /\ Len(res.rest) < 6) =>
       /\ ~res2.ok
       /\ res2.err.kind = "IncompleteBuffer"
       /\ res2.err.n = 6 - Len(res.rest)

C1_Witness ==
  /\ Decoded
  /\ Len(buf) = 2
  /\ order = "BE"
  /\ res.err.kind = "IncompleteBuffer"
  /\ res.err.n = 4

\* C2: link type N, snaplen S and an all-zero terminator (10 bytes) decode to
\* the registry's value of N (Ethernet for 1, Unknown(N) otherwise), snaplen
\* S, no options and an empty remaining slice.
C2_MinimalBlock ==
  (Decoded /\ ~cut /\ Len(blocks) = 1 /\ Recs1 = <<Rec(0, <<>>)>>) =>
    /\ Len(buf) = 10
    /\ res.ok
    /\ res.val.linktype.n = blocks[1].linktype
    /\ res.val.linktype.tag =
         (IF blocks[1].linktype = 1 THEN "ETHERNET" ELSE "Unknown")
    /\ res.val.snaplen = blocks[1].snaplen
    /\ res.val.options = <<>>
    /\ res.rest = <<>>

C2_Witness ==
  /\ Decoded
  /\ ~cut
  /\ order = "LE"
  /\ buf = <<52, 18, 4, 3, 2, 1, 0, 0, 0, 0>>
  /\ res.ok
  /\ res.val.linktype.tag = "Unknown"
  /\ res.val.snaplen = <<1, 2, 3, 4>>

\* C3: a complete, well-formed record of code c in 1..15 decodes to the c-th
\* variant with the payload as string (1, 2, 3, 12, 15), as bytes (4, 5, 6,
\* 11) or as the integer at the start of the payload in the block's byte
\* order (7, 8, 14: 64 bits; 10: 32 bits; 9, 13: 8 bits); no other code of
\* 1..15 gives that variant.
C3_OptionTable ==
  (Decoded /\ ~cut /\ Len(blocks) = 1 /\ Recs1 # <<>>
     /\ \A i \in 1..Len(Recs1) : WellFormed(Recs1[i])) =>
    /\ res.ok
    /\ Len(res.val.options) = Len(Recs1)
    /\ \A i \in 1..Len(Recs1) :
         /\ res.val.options[i] = ExpectedOption(order, Recs1[i])
         /\ \A c \in (1..15) \ {Recs1[i].code} :
              LET o == option_closure(order, Recs1[i].payload, c,
                                      Len(Recs1[i].payload))
              IN  o.ok => o.val.tag # res.val.options[i].tag

C3_Witness ==
  /\ Decoded
  /\ ~cut
  /\ Recs1 = <<Rec(9, <<6>>)>>
  /\ res.ok
  /\ res.val.options = <<[tag |-> "IfTsResol", kind |-> "u8", val |-> <<6>>]>>

\* C4: a complete record whose code is neither 0 nor in 1..15, reached after
\* options that decoded, fails the block decode with InvalidField naming the
\* option type, whatever its payload; nothing is returned.
C4_UnknownCode ==
  (Decoded /\ Len(blocks) = 1) =>
    \A i \in 1..Len(Recs1) :
      (/\ Reached(i)
       /\ Recs1[i].code \notin 0..15
       /\ RecStart(i) + RecSize(Recs1[i]) <= Len(buf)) =>
        /\ ~res.ok
        /\ res.err.kind = "InvalidField"
        /\ res.err.msg = "InterfaceDescriptionOption type invalid"

C4_Witness ==
  /\ Decoded
  /\ ~cut
  /\ Recs1 = <<Rec(9, <<6>>), Rec(99, <<1, 2, 3, 4>>)>>
  /\ ~res.ok
  /\ res.err.kind = "InvalidField"

\* C5: when the input ends inside the record the scan has reached, the decode
\* fails with IncompleteBuffer(k): k = 4 - available when 1 to 3 bytes of the
\* header are there, k = declared length - available when the header is there
\* and the payload is not; so for every code, known or not.
C5_Truncated ==
  (Decoded /\ Len(blocks) = 1) =>
    \A i \in 1..Len(Recs1) :
      LET avail == Len(buf) - RecStart(i)
          declared == Len(Recs1[i].payload)
      IN  Reached(i) =>
            /\ avail \in 1..3 =>
                 /\ ~res.ok
                 /\ res.err.kind = "IncompleteBuffer"
                 /\ res.err.n = 4 - avail
            /\ (avail >= 4 /\ Recs1[i].code # 0 /\ avail - 4 < declared) =>
                 /\ ~res.ok
                 /\ res.err.kind = "IncompleteBuffer"
                 /\ res.err.n = declared - (avail - 4)

C5_Witness ==
  /\ Decoded
  /\ cut
  /\ Recs1 = <<Rec(99, <<1, 2, 3, 4, 5, 6, 7, 8, 9>>)>>
  /\ Len(buf) = 13
  /\ res.err.kind = "IncompleteBuffer"
  /\ res.err.n = 6

\* The last record written into the first block, once the options before it
\* are all well formed and the input is whole.
LastIsUnderTest ==
  /\ Decoded
  /\ ~cut
  /\ Len(blocks) = 1
  /\ Recs1 # <<>>
  /\ Reached(Len(Recs1))

LastRec == Recs1[Len(Recs1)]

\* C6 as stated: for every code in 1..15 a record of declared length 0
\* decodes, to an empty string, an empty byte slice or a value of the integer
\* kind, and the block decode does not fail.
C6_ZeroLength_AsStated ==
  (LastIsUnderTest /\ LastRec.code \in 1..15 /\ LastRec.payload = <<>>) =>
    /\ res.ok
    /\ Len(res.val.options) = Len(Recs1)
    /\ res.val.options[Len(Recs1)].kind = KindOf(LastRec.code)

\* C6 as amended: a record of declared length 0 decodes to an empty string
\* for codes 1, 2, 3, 12, 15 and to an empty byte slice for codes 4, 5, 6,
\* 11; for the integer codes 7, 8, 9, 10, 13, 14 there is nothing to read the
\* integer from and the block decode fails.
C6_ZeroLength ==
  (LastIsUnderTest /\ LastRec.code \in 1..15 /\ LastRec.payload = <<>>) =>
    /\ LastRec.code \in StrCodes \cup RawCodes =>
         /\ res.ok
         /\ Len(res.val.options) = Len(Recs1)
         /\ res.val.options[Len(Recs1)] =
              [tag |-> VariantOf[LastRec.code],
               kind |-> KindOf(LastRec.code),
               val |-> <<>>]
    /\ LastRec.code \in IntCodes => ~res.ok

C6_Witness ==
  /\ Decoded
  /\ ~cut
  /\ Recs1 = <<Rec(12, <<>>)>>
  /\ res.ok
  /\ res.val.options = <<[tag |-> "IfOs", kind |-> "str", val |-> <<>>]>>

\* The first block is a valid one: options that decode, then one terminator.
ValidBlock1 ==
  /\ Recs1 # <<>>
  /\ Reached(Len(Recs1))
  /\ Recs1[Len(Recs1)] = Rec(0, <<>>)

RECURSIVE RecsBytes(_, _, _)
RecsBytes(B, p, recs) ==
  IF recs = <<>> THEN <<>>
  ELSE RecordBytes(B, p, recs[1]) \o RecsBytes(B, p, Tail(recs))

\* The bytes of block b.
BlockBytes(b) ==
  HeaderBytes(order, b.linktype, b.snaplen) \o RecsBytes(order, pad, b.recs)

\* C7: of two valid blocks back to back, decoding the first leaves exactly
\* the input after 6 header bytes, each option's 4 + length rounded up to a
\* multiple of 4, and 4 terminator bytes; the padding's content changes
\* nothing; decoding that remainder gives what the second block gives alone.
C7_TwoBlocks ==
  (Decoded /\ Len(blocks) = 2 /\ ValidBlock1
     /\ from_slice(order, BlockBytes(blocks[2])).ok) =>
    LET size1 == 6 + RecsSize(Recs1)
        alone == from_slice(order, BlockBytes(blocks[2]))
    IN  /\ res.ok
        /\ Len(res.rest) = Len(buf) - size1
        /\ res.rest = Drop(buf, size1)
        /\ res.val.snaplen = blocks[1].snaplen
        /\ res.val.options =
             [i \in 1..(Len(Recs1) - 1) |-> ExpectedOption(order, Recs1[i])]
        /\ pc = "done" =>
             /\ res2.ok
             /\ res2.val = alone.val
             /\ res2.rest = alone.rest
             /\ res2.val.snaplen = blocks[2].snaplen

C7_Witness ==
  /\ pc = "done"
  /\ Len(blocks) = 2
  /\ pad = 85
  /\ Recs1 = <<Rec(2, <<104, 105>>), Rec(0, <<>>)>>
  /\ blocks[2].recs = <<Rec(9, <<6>>)>>
  /\ Len(res.rest) = 14
  /\ res2.ok
  /\ Len(res2.val.options) = 1

\* C8: a failed block decode is IncompleteBuffer(k) or InvalidField(text) and
\* nothing else: a string option that is no UTF-8 and an integer option
\* shorter than its integer do not surface as an error kind of their own.
C8_ErrorShapes ==
  (Decoded /\ ~res.ok) =>
    /\ res.err.kind \in {"IncompleteBuffer", "InvalidField"}
    /\ res.err.kind = "IncompleteBuffer" => res.err.n >= 1
    /\ res.err.kind = "InvalidField" => res.err.msg # ""

C8_Witness ==
  /\ Decoded
  /\ ~cut
  /\ Recs1 = <<Rec(9, <<6>>), Rec(3, <<255>>)>>
  /\ ~res.ok
  /\ res.err.kind = "InvalidField"

\* C9: on success the options are the interpretations, in wire order, of the
\* records before the first record of type code 0 (or before the end of the
\* slice); that record's 4 header bytes are consumed and everything after
\* them is the remaining slice.  A 6-byte input decodes to no options and an
\* empty remaining slice.
C9_WireOrder ==
  /\ (Decoded /\ res.ok) =>
       LET n == Len(res.val.options)
       IN  /\ n <= Len(Recs1)
           /\ ~cut => n = FirstZero - 1
           /\ \A i \in 1..n :
                /\ Recs1[i].code # 0
                /\ res.val.options[i] = ExpectedOption(order, Recs1[i])
           /\ \/ /\ n < Len(Recs1)
                 /\ Recs1[n + 1].code = 0
                 /\ RecStart(n + 1) + 4 <= Len(buf)
                 /\ res.rest = Drop(buf, RecStart(n + 1) + 4)
              \/ /\ RecStart(n + 1) = Len(buf)
                 /\ res.rest = <<>>
  /\ (Decoded /\ Len(buf) = 6) =>
       /\ res.ok
       /\ res.val.options = <<>>
       /\ res.rest = <<>>

C9_Witness ==
  /\ Decoded
  /\ ~cut
  /\ order = "LE"
  /\ pad = 0
  /\ Recs1 = <<Rec(2, <<104, 105>>), Rec(0, <<>>), Rec(9, <<6>>)>>
  /\ res.ok
  /\ res.val.options =
       <<[tag |-> "IfName", kind |-> "str", val |-> <<104, 105>>]>>
  /\ res.rest = <<9, 0, 1, 0, 6, 0, 0, 0>>

\* C10: an integer option whose payload is longer than its integer decodes to
\* the integer of the payload's first bytes; the bytes after them, and the
\* length handed to the interpreter, change neither the value nor the
\* remaining slice.
C10_LongInteger ==
  (LastIsUnderTest /\ LastRec.code \in IntCodes
     /\ Len(LastRec.payload) > WidthOf(KindOf(LastRec.code))) =>
    LET c == LastRec.code
        p == LastRec.payload
        w == WidthOf(KindOf(c))
    IN  /\ res.ok
        /\ Len(res.val.options) = Len(Recs1)
        /\ res.val.options[Len(Recs1)] =
             ExpectedOption(order, Rec(c, Take(p, w)))
        /\ res.rest = <<>>
        /\ \A q \in Payloads :
             (Len(q) >= w /\ Take(q, w) = Take(p, w)) =>
               option_closure(order, q, c, Len(q)) =
                 option_closure(order, p, c, Len(p))
        /\ \A l \in 0..(Len(p) + 1) :
             option_closure(order, p, c, l) = option_closure(order, p, c, Len(p))

C10_Witness ==
  /\ Decoded
  /\ ~cut
  /\ order = "LE"
  /\ Recs1 = <<Rec(10, <<1, 2, 3, 4, 5, 6, 7, 8, 9>>)>>
  /\ res.ok
  /\ res.val.options = <<[tag |-> "IfTzone", kind |-> "u32", val |-> <<4, 3, 2, 1>>]>>

====
